---- MODULE Spec2Model ----
(***************************************************************************)
(* RepoStateFile (apps/rush-lib/src/logic/RepoStateFile.ts): the tracker   *)
(* of repo-state.json.  The state is the file at filePath, the one         *)
(* RepoStateFile instance of the running tool, and a record of the last    *)
(* call (its inputs, the tracker it started from and its outcome).         *)
(* Spec is the tracker; TipSpec is the custom tip formatter               *)
(* (CustomTipsConfiguration), which shares no state with it.               *)
(*                                                                         *)
(* A file's text is a sequence of lexical units.  "<" and "\n" are single  *)
(* characters, so that the merge-conflict scan of loadFromFile runs on     *)
(* character offsets where it matters; a JSON punctuation mark, a member   *)
(* name with its colon, a string literal and the banner comment are one    *)
(* unit each.  An optional string (string | undefined) is <<>> when        *)
(* undefined and <<s>> when it is the string s.                            *)
(***************************************************************************)
EXTENDS Integers, Sequences, FiniteSets, TLC

VARIABLES disk, tracker, pc, call

\* CustomTipsConfiguration (second source file): the tips configured in
\* custom-tips.json, what the terminal has been sent, and the last call
VARIABLES tipMap, out, tipCall

repoVars == <<disk, tracker, pc, call>>
tipVars == <<tipMap, out, tipCall>>
vars == <<disk, tracker, pc, call, tipMap, out, tipCall>>

----------------------------------------------------------------------------
(* Bounds and vocabulary *)

\* longest unparsable text, in lines, that the initial file is drawn from
MaxLines == 2

\* length of the Git conflict marker '<<<<<<<' (RepoStateFile.ts:123)
MarkerLen == 7

NL == "\n"
LT == "<"
Banner == "// DO NOT MODIFY THIS FILE MANUALLY BUT DO COMMIT IT. It is generated and used by Rush."
KeyShrinkwrap == "\"pnpmShrinkwrapHash\":"
KeyPreferred == "\"preferredVersionsHash\":"
KeyOther == "\"other\":"
INVALID == "INVALID"

None == <<>>
Some(s) == <<s>>

\* hashes the two collaborators can compute (hex digests: never empty)
Hashes == {"abc", "def"}
\* string literals a file may hold as the value of a member
StringValues == Hashes \cup {"", INVALID}
OptStrings == {None} \cup {Some(s) : s \in StringValues}

\* JavaScript truthiness of a string | undefined
Truthy(f) == f # None /\ f[1] # ""

Min(a, b) == IF a < b THEN a ELSE b

----------------------------------------------------------------------------
(* Strings: the two String.prototype methods the scan uses, 0-based *)

\* text.substr(start, len)
Substr(text, start, len) ==
  IF start >= Len(text) THEN <<>>
  ELSE SubSeq(text, start + 1, Min(start + len, Len(text)))

\* text.indexOf(ch, from): the first index >= from holding ch, or -1
RECURSIVE IndexOf(_, _, _)
IndexOf(text, ch, from) ==
  IF from >= Len(text) THEN -1
  ELSE IF text[from + 1] = ch THEN from
  ELSE IndexOf(text, ch, from + 1)

Marker == [i \in 1..MarkerLen |-> LT]

----------------------------------------------------------------------------
(* JsonFile.parseString / JsonFile.stringify / schema validation           *)
(* (@rushstack/node-core-library, called at RepoStateFile.ts:113,135,228)  *)

ParseError == [kind |-> "error", pnpmShrinkwrapHash |-> None,
               preferredVersionsHash |-> None, other |-> FALSE]
JsonNull == [kind |-> "null", pnpmShrinkwrapHash |-> None,
             preferredVersionsHash |-> None, other |-> FALSE]
EmptyObject == [kind |-> "object", pnpmShrinkwrapHash |-> None,
                preferredVersionsHash |-> None, other |-> FALSE]

KeyTokens == {KeyShrinkwrap, KeyPreferred, KeyOther}

\* white space and comments carry no JSON content
StripTrivia(text) == SelectSeq(text, LAMBDA u : u # NL /\ u # Banner)

\* the members of an object, from the unit after "{" or after a ","
RECURSIVE ParseMembers(_, _)
ParseMembers(t, obj) ==
  IF Len(t) < 3 \/ t[1] \notin KeyTokens \/ t[2] \notin StringValues
    THEN ParseError
  ELSE LET obj2 == IF t[1] = KeyShrinkwrap
                     THEN [obj EXCEPT !.pnpmShrinkwrapHash = Some(t[2])]
                   ELSE IF t[1] = KeyPreferred
                     THEN [obj EXCEPT !.preferredVersionsHash = Some(t[2])]
                   ELSE [obj EXCEPT !.other = TRUE]
       IN IF t[3] = "}" THEN (IF Len(t) = 3 THEN obj2 ELSE ParseError)
          ELSE IF t[3] = "," THEN ParseMembers(SubSeq(t, 4, Len(t)), obj2)
          ELSE ParseError

\* JsonFile.parseString(text): the value, or ParseError when it throws
ParseString(text) ==
  LET t == StripTrivia(text)
  IN IF t = <<"null">> THEN JsonNull
     ELSE IF t = <<"{", "}">> THEN EmptyObject
     ELSE IF Len(t) >= 1 /\ t[1] = "{"
       THEN ParseMembers(SubSeq(t, 2, Len(t)), EmptyObject)
     ELSE ParseError

\* JsonFile.stringify(obj, LF): the members that are set, one per line
Stringify(obj) ==
  LET p == IF obj.pnpmShrinkwrapHash # None
             THEN <<KeyShrinkwrap, obj.pnpmShrinkwrapHash[1]>> ELSE <<>>
      v == IF obj.preferredVersionsHash # None
             THEN <<KeyPreferred, obj.preferredVersionsHash[1]>> ELSE <<>>
      sep == IF p # <<>> /\ v # <<>> THEN <<",", NL>> ELSE <<>>
  IN IF p = <<>> /\ v = <<>> THEN <<"{", "}", NL>>
     ELSE <<"{", NL>> \o p \o sep \o v \o <<NL, "}", NL>>

\* repo-state.schema.json: two optional string members, nothing else
SchemaAccepts(obj) == obj.kind = "object" /\ ~obj.other

----------------------------------------------------------------------------
(* The file at filePath *)

NoFile == [exists |-> FALSE, text |-> <<>>]
FileWith(text) == [exists |-> TRUE, text |-> text]

RECURSIVE JoinLines(_)
JoinLines(ls) ==
  IF Len(ls) = 0 THEN <<>>
  ELSE IF Len(ls) = 1 THEN ls[1]
  ELSE ls[1] \o <<NL>> \o JoinLines(Tail(ls))

\* lines of a text that is not JSON
LineKinds == { Marker, <<"x">> \o Marker, SubSeq(Marker, 1, MarkerLen - 1),
               <<"x">>, <<"{">> }

UnparsableTexts ==
  UNION { { JoinLines(ls) : ls \in [1..n -> LineKinds] } : n \in 1..MaxLines }

JsonObjects ==
  [kind : {"object"}, pnpmShrinkwrapHash : OptStrings,
   preferredVersionsHash : OptStrings, other : {FALSE}]

InitialFiles ==
  {NoFile, FileWith(<<>>), FileWith(<<"null", NL>>),
   FileWith(<<Banner, NL, "{", NL, KeyOther, "abc", NL, "}", NL>>)}
  \cup { FileWith(<<Banner, NL>> \o Stringify(o)) : o \in JsonObjects }
  \cup { FileWith(t) : t \in UnparsableTexts }

----------------------------------------------------------------------------
(* The RepoStateFile instance *)

\* a RepoStateFile whose _modified field is initialised to true (line 46)
NewRepoStateFile_Dirty(repoStateJson, isValid) ==
  [pnpmShrinkwrapHash |->
     IF repoStateJson.kind = "object" THEN repoStateJson.pnpmShrinkwrapHash
     ELSE None,
   preferredVersionsHash |->
     IF repoStateJson.kind = "object" THEN repoStateJson.preferredVersionsHash
     ELSE None,
   isValid |-> isValid,
   modified |-> TRUE]

\* new RepoStateFile(repoStateJson, isValid, filePath, variant)
NewRepoStateFile(repoStateJson, isValid) ==
  [pnpmShrinkwrapHash |->
     IF repoStateJson.kind = "object" THEN repoStateJson.pnpmShrinkwrapHash
     ELSE None,
   preferredVersionsHash |->
     IF repoStateJson.kind = "object" THEN repoStateJson.preferredVersionsHash
     ELSE None,
   isValid |-> isValid,
   modified |-> FALSE]

NoTracker == NewRepoStateFile(ParseError, TRUE)

\* the for loop of loadFromFile, entered at nextNewlineIndex = idx
RECURSIVE ScanForMarker(_, _)
ScanForMarker(fileContents, idx) ==
  IF idx <= -1 THEN FALSE
  ELSE IF Substr(fileContents, idx + 1, MarkerLen) = Marker THEN TRUE
  ELSE ScanForMarker(fileContents, IndexOf(fileContents, NL, idx + 1))

foundMergeConflictMarker(fileContents) == ScanForMarker(fileContents, 0)

\* a recovery that synthesizes the lockfile sentinel only (line 126 missing)
InvalidJson_OnlyShrinkwrap ==
  [kind |-> "object", pnpmShrinkwrapHash |-> Some(INVALID),
   preferredVersionsHash |-> None, other |-> FALSE]

\* the record loadFromFile synthesizes on a merge conflict, lines 125-128
InvalidJson == [kind |-> "object", pnpmShrinkwrapHash |-> Some(INVALID),
                preferredVersionsHash |-> Some(INVALID), other |-> FALSE]

\* a loadFromFile that rethrows the "does not exist" error of readFile
LoadResult_MissingFileThrows(f, readFails) ==
  IF readFails \/ ~f.exists THEN [error |-> "read", tracker |-> NoTracker]
  ELSE [error |-> "none", tracker |-> NewRepoStateFile(ParseError, TRUE)]

\* loadFromFile(jsonFilename, variant) on the file f:
\* [error, tracker]: error names what it throws ("none" when it returns),
\* tracker is the instance it returns.  readFails: FileSystem.readFile
\* throws something other than a "does not exist" error
LoadResult(f, readFails) ==
  IF readFails THEN [error |-> "read", tracker |-> NoTracker]
  ELSE IF ~f.exists \/ f.text = <<>>
    THEN [error |-> "none", tracker |-> NewRepoStateFile(ParseError, TRUE)]
  ELSE
    LET parsed == ParseString(f.text)
        found == parsed.kind = "error" /\ foundMergeConflictMarker(f.text)
        repoStateJson == IF parsed.kind = "error"
                           THEN (IF found THEN InvalidJson ELSE ParseError)
                         ELSE parsed
    IN IF repoStateJson.kind = "object" /\ ~SchemaAccepts(repoStateJson)
         THEN [error |-> "schema", tracker |-> NoTracker]
       ELSE [error |-> "none",
             tracker |-> NewRepoStateFile(repoStateJson, ~found)]

----------------------------------------------------------------------------
(* refreshState *)

\* What refreshState reads from rushConfiguration: the two feature flags,
\* the hash of the committed shrinkwrap file of the tracker's variant (None
\* when PnpmShrinkwrapFile.loadFromFile finds no file) and the preferred
\* versions hash.  A hash that a disabled flag keeps refreshState from
\* reading is left out (None).
Configurations ==
  { c \in [preventShrinkwrapChanges : BOOLEAN,
           shrinkwrapFileHash : {None} \cup {Some(h) : h \in Hashes},
           useWorkspaces : BOOLEAN,
           preferredVersionsHash : {None} \cup {Some(h) : h \in Hashes}] :
      /\ ~c.preventShrinkwrapChanges => c.shrinkwrapFileHash = None
      /\ c.useWorkspaces <=> c.preferredVersionsHash # None }

NoConfiguration ==
  [preventShrinkwrapChanges |-> FALSE, shrinkwrapFileHash |-> None,
   useWorkspaces |-> FALSE, preferredVersionsHash |-> None]

\* a refreshState without the else branch of line 176: a disabled flag
\* leaves the stored lockfile hash in place
RefreshShrinkwrapHash_KeepsStale(t, c) ==
  IF c.preventShrinkwrapChanges /\ c.shrinkwrapFileHash # None
       /\ t.pnpmShrinkwrapHash # c.shrinkwrapFileHash
    THEN [t EXCEPT !.pnpmShrinkwrapHash = c.shrinkwrapFileHash,
                   !.modified = TRUE]
  ELSE t

\* a refreshState without line 173: a new lockfile hash is stored but the
\* tracker is not marked dirty
RefreshShrinkwrapHash_NoDirty(t, c) ==
  IF c.preventShrinkwrapChanges
    THEN IF c.shrinkwrapFileHash # None
           THEN [t EXCEPT !.pnpmShrinkwrapHash = c.shrinkwrapFileHash]
         ELSE t
  ELSE IF t.pnpmShrinkwrapHash # None
    THEN [t EXCEPT !.pnpmShrinkwrapHash = None, !.modified = TRUE]
  ELSE t

\* the lockfile field, lines 152-179
RefreshShrinkwrapHash(t, c) ==
  IF c.preventShrinkwrapChanges
    THEN IF c.shrinkwrapFileHash # None
           THEN IF t.pnpmShrinkwrapHash # c.shrinkwrapFileHash
                  THEN [t EXCEPT !.pnpmShrinkwrapHash = c.shrinkwrapFileHash,
                                 !.modified = TRUE]
                ELSE t
         ELSE t
  ELSE IF t.pnpmShrinkwrapHash # None
    THEN [t EXCEPT !.pnpmShrinkwrapHash = None, !.modified = TRUE]
  ELSE t

\* a refreshState without line 189: a new preferred versions hash is
\* stored but the tracker is not marked dirty
RefreshPreferredVersionsHash_NoDirty(t, c) ==
  IF c.useWorkspaces
    THEN [t EXCEPT !.preferredVersionsHash = c.preferredVersionsHash]
  ELSE IF t.preferredVersionsHash # None
    THEN [t EXCEPT !.preferredVersionsHash = None, !.modified = TRUE]
  ELSE t

\* a refreshState whose line 192 clears the lockfile hash as well
RefreshPreferredVersionsHash_ClearsBoth(t, c) ==
  IF c.useWorkspaces
    THEN IF t.preferredVersionsHash # c.preferredVersionsHash
           THEN [t EXCEPT !.preferredVersionsHash = c.preferredVersionsHash,
                          !.modified = TRUE]
         ELSE t
  ELSE IF t.preferredVersionsHash # None
    THEN [t EXCEPT !.preferredVersionsHash = None,
                   !.pnpmShrinkwrapHash = None, !.modified = TRUE]
  ELSE t

\* a refreshState without the else branch of line 191: a disabled flag
\* leaves the stored preferred versions hash in place
RefreshPreferredVersionsHash_KeepsStale(t, c) ==
  IF c.useWorkspaces /\ t.preferredVersionsHash # c.preferredVersionsHash
    THEN [t EXCEPT !.preferredVersionsHash = c.preferredVersionsHash,
                   !.modified = TRUE]
  ELSE t

\* the preferred versions field, lines 181-194
RefreshPreferredVersionsHash(t, c) ==
  IF c.useWorkspaces
    THEN IF t.preferredVersionsHash # c.preferredVersionsHash
           THEN [t EXCEPT !.preferredVersionsHash = c.preferredVersionsHash,
                          !.modified = TRUE]
         ELSE t
  ELSE IF t.preferredVersionsHash # None
    THEN [t EXCEPT !.preferredVersionsHash = None, !.modified = TRUE]
  ELSE t

\* a refreshState without line 197
MarkValid_Skipped(t) == t

\* isValid, lines 196-197
MarkValid(t) == [t EXCEPT !.isValid = TRUE]

\* a _serialize without lines 224-226
_serialize_OmitsPreferred(t) ==
  Stringify([kind |-> "object",
             pnpmShrinkwrapHash |->
               IF Truthy(t.pnpmShrinkwrapHash) THEN t.pnpmShrinkwrapHash
               ELSE None,
             preferredVersionsHash |-> None,
             other |-> FALSE])

\* _serialize(): only the members that are truthy are set
_serialize(t) ==
  Stringify([kind |-> "object",
             pnpmShrinkwrapHash |->
               IF Truthy(t.pnpmShrinkwrapHash) THEN t.pnpmShrinkwrapHash
               ELSE None,
             preferredVersionsHash |->
               IF Truthy(t.preferredVersionsHash) THEN t.preferredVersionsHash
               ELSE None,
             other |-> FALSE])

\* a _saveIfModified without line 211: the dirty flag is never cleared
_saveIfModified_StaysDirty(t, f, writeFails) ==
  IF t.modified
    THEN IF writeFails
           THEN [tracker |-> t, disk |-> f, error |-> "write",
                 ret |-> FALSE, writes |-> 0]
         ELSE [tracker |-> t,
               disk |-> FileWith(<<Banner, NL>> \o _serialize(t)),
               error |-> "none", ret |-> TRUE, writes |-> 1]
  ELSE [tracker |-> t, disk |-> f, error |-> "none",
        ret |-> FALSE, writes |-> 0]

\* a _saveIfModified with line 211 moved before line 210: the dirty flag
\* is cleared before the write is known to have succeeded
_saveIfModified_ClearsBeforeWrite(t, f, writeFails) ==
  IF t.modified
    THEN IF writeFails
           THEN [tracker |-> [t EXCEPT !.modified = FALSE], disk |-> f,
                 error |-> "write", ret |-> FALSE, writes |-> 0]
         ELSE [tracker |-> [t EXCEPT !.modified = FALSE],
               disk |-> FileWith(<<Banner, NL>> \o _serialize(t)),
               error |-> "none", ret |-> TRUE, writes |-> 1]
  ELSE [tracker |-> t, disk |-> f, error |-> "none",
        ret |-> FALSE, writes |-> 0]

\* a _saveIfModified without the test of line 206: it writes the file on
\* every call and reports the dirty flag
_saveIfModified_AlwaysWrites(t, f, writeFails) ==
  IF writeFails
    THEN [tracker |-> t, disk |-> f, error |-> "write",
          ret |-> FALSE, writes |-> 0]
  ELSE [tracker |-> [t EXCEPT !.modified = FALSE],
        disk |-> FileWith(<<Banner, NL>> \o _serialize(t)),
        error |-> "none", ret |-> t.modified, writes |-> 1]

\* _saveIfModified() on the tracker t with the file f at filePath;
\* writeFails: FileSystem.writeFile throws
_saveIfModified(t, f, writeFails) ==
  IF t.modified
    THEN IF writeFails
           THEN [tracker |-> t, disk |-> f, error |-> "write",
                 ret |-> FALSE, writes |-> 0]
         ELSE [tracker |-> [t EXCEPT !.modified = FALSE],
               disk |-> FileWith(<<Banner, NL>> \o _serialize(t)),
               error |-> "none", ret |-> TRUE, writes |-> 1]
  ELSE [tracker |-> t, disk |-> f, error |-> "none",
        ret |-> FALSE, writes |-> 0]

\* refreshState(rushConfiguration)
RefreshResult(t, f, c, writeFails) ==
  _saveIfModified(
    MarkValid(RefreshPreferredVersionsHash(RefreshShrinkwrapHash(t, c), c)),
    f, writeFails)

----------------------------------------------------------------------------
(* CustomTipsConfiguration: the tip formatter *)

\* calls of the formatter in one run
MaxTipCalls == 2
\* words of the longest configured message
MaxWords == 2
\* columns PrintUtilities.wrapWords wraps to (the width of the console)
ConsoleWidth == 6
\* indentToBeRemovedLatter
IndentToBeRemoved == 2

TipIds == {"TIP_RUSH_INCONSISTENT_VERSIONS", "TIP_PNPM_UNEXPECTED_STORE"}
Severities == {"Error", "Warning", "Info"}

\* customTipRegistry[tipId].severity
customTipRegistry(tipId) == "Error"

Words == {"tip", "a"}
WordLen(w) == IF w = "tip" THEN 3 ELSE 1
Messages == UNION { [1..n -> Words] : n \in 0..MaxWords }

\* an entry of _tipMap: _tipMap.get(tipId) is undefined when not configured
NoTip == [configured |-> FALSE, message |-> <<>>]
Tip(m) == [configured |-> TRUE, message |-> m]

Indent(n) == [i \in 1..n |-> " "]

\* the lines of the words ws after the line under construction, which is
\* len columns long
RECURSIVE WrapFrom(_, _, _, _, _)
WrapFrom(ws, line, len, width, indent) ==
  IF ws = <<>> THEN <<line>>
  ELSE IF len = indent
    THEN WrapFrom(Tail(ws), line \o <<Head(ws)>>, len + WordLen(Head(ws)),
                  width, indent)
  ELSE IF len + 1 + WordLen(Head(ws)) <= width
    THEN WrapFrom(Tail(ws), line \o <<" ", Head(ws)>>,
                  len + 1 + WordLen(Head(ws)), width, indent)
  ELSE <<line>> \o WrapFrom(ws, Indent(indent), indent, width, indent)

\* PrintUtilities.wrapWords(message, undefined, indent): the message broken
\* into indented lines no longer than the console, joined by '\n'
wrapWords(message, indent) ==
  IF message = <<>> THEN <<>>
  ELSE JoinLines(WrapFrom(message, Indent(indent), indent, ConsoleWidth,
                          indent))

\* text.split('\n')
RECURSIVE Split(_)
Split(text) ==
  LET i == IndexOf(text, NL, 0)
  IN IF i = -1 THEN <<text>>
     ELSE <<SubSeq(text, 1, i)>> \o Split(SubSeq(text, i + 2, Len(text)))

\* line.replace(/^ {2}/, '')
RemoveIndent(line) ==
  IF Len(line) >= 2 /\ line[1] = " " /\ line[2] = " "
    THEN SubSeq(line, 3, Len(line))
  ELSE line

\* ITerminal: what is sent to the terminal is a sequence of units, each with
\* the severity it was written at; the ...Line methods end the line
Emit(o, sev, text) ==
  o \o [i \in 1..Len(text) |-> [sev |-> sev, text |-> text[i]]]
write(o, text) == Emit(o, "log", text)
writeLine(o, text) == Emit(o, "log", text \o <<NL>>)
writeWarning(o, text) == Emit(o, "warning", text)
writeWarningLine(o, text) == Emit(o, "warning", text \o <<NL>>)
writeError(o, text) == Emit(o, "error", text)
writeErrorLine(o, text) == Emit(o, "error", text \o <<NL>>)

Pipe == "| "

\* _formatMessageHeader(tipId)
_formatMessageHeader(tipId) == <<"| Custom Tip (", tipId, ")", NL, "|">>

\* the forEach of _writeMessageWithPipes, lines 354-369
RECURSIVE WritePipedLines(_, _, _)
WritePipedLines(o, severity, lines) ==
  IF lines = <<>> THEN o
  ELSE LET line == RemoveIndent(Head(lines))
           o1 == IF severity = "Error" THEN writeError(o, <<Pipe>>)
                 ELSE IF severity = "Warning" THEN writeWarning(o, <<Pipe>>)
                 ELSE writeLine(o, <<Pipe>>)
       IN WritePipedLines(writeLine(o1, line), severity, Tail(lines))

\* _writeMessageWithPipes(terminal, severity, tipId): the terminal after it
_writeMessageWithPipes(o, map, severity, tipId) ==
  IF ~map[tipId].configured THEN o
  ELSE
    LET messageHeader == _formatMessageHeader(tipId)
        wrappedAndIndentedMessage ==
          wrapWords(map[tipId].message, IndentToBeRemoved)
        o1 == IF severity = "Error" THEN writeErrorLine(o, messageHeader)
              ELSE IF severity = "Warning"
                THEN writeWarningLine(o, messageHeader)
              ELSE writeLine(o, messageHeader)
    IN write(WritePipedLines(o1, severity, Split(wrappedAndIndentedMessage)),
             <<NL>>)

\* _showTip(terminal, tipId): the terminal after it
_showTip(o, map, tipId) ==
  IF ~map[tipId].configured THEN o
  ELSE _writeMessageWithPipes(o, map, customTipRegistry(tipId), tipId)

NoTipCall == [op |-> "none", tipId |-> "", severity |-> "", mark |-> 0,
              n |-> 0]
NoTips == [id \in TipIds |-> NoTip]

\* the formatter is idle while the tracker runs
TipIdle == tipMap = NoTips /\ out = <<>> /\ tipCall = NoTipCall

----------------------------------------------------------------------------
(* The state machine *)

\* the call before the last one, as far as the properties need it
NoPrev == [op |-> "none", error |-> "none", ret |-> FALSE,
           config |-> NoConfiguration]
Summary(k) == [op |-> k.op, error |-> k.error, ret |-> k.ret,
               config |-> k.config]

\* op: the last call; error: what it threw ("none": it returned); ret and
\* writes: the value refreshState returned and the number of times it wrote
\* the file; config: its argument; pre: the tracker it was called on
NoCall == [op |-> "none", error |-> "none", ret |-> FALSE, writes |-> 0,
           config |-> NoConfiguration, pre |-> NoTracker, prev |-> NoPrev]

Init ==
  /\ disk \in InitialFiles
  /\ tracker = NoTracker
  /\ pc = "start"
  /\ call = NoCall
  /\ TipIdle

\* a run of the tool calls RepoStateFile.loadFromFile(filePath, variant)
loadFromFile ==
  \E readFails \in BOOLEAN :
    /\ readFails => disk.exists
    /\ LET r == LoadResult(disk, readFails)
       IN /\ tracker' = r.tracker
          /\ pc' = IF r.error # "none" THEN "failed" ELSE "ready"
          /\ call' = [op |-> "load", error |-> r.error, ret |-> FALSE,
                      writes |-> 0, config |-> NoConfiguration,
                      pre |-> tracker, prev |-> Summary(call)]
    /\ UNCHANGED <<disk, tipVars>>

\* the tool calls refreshState(rushConfiguration) on the loaded tracker
refreshState ==
  /\ pc = "ready"
  /\ \E c \in Configurations, writeFails \in BOOLEAN :
       LET r == RefreshResult(tracker, disk, c, writeFails)
       IN /\ writeFails => r.error = "write"
          /\ tracker' = r.tracker
          /\ disk' = r.disk
          /\ call' = [op |-> "refresh", error |-> r.error, ret |-> r.ret,
                      writes |-> r.writes, config |-> c,
                      pre |-> tracker, prev |-> Summary(call)]
  /\ UNCHANGED <<pc, tipVars>>

Next == loadFromFile \/ refreshState

Spec == Init /\ [][Next]_vars

\* new CustomTipsConfiguration(configFilename): _tipMap holds the tips of
\* custom-tips.json
TipInit ==
  /\ tipMap \in [TipIds -> {NoTip} \cup {Tip(m) : m \in Messages}]
  /\ out = <<>>
  /\ tipCall = NoTipCall
  /\ disk = NoFile /\ tracker = NoTracker /\ pc = "start" /\ call = NoCall

\* the record of a call made now
TipCallRecord(op, severity, tipId) ==
  [op |-> op, tipId |-> tipId, severity |-> severity, mark |-> Len(out),
   n |-> tipCall.n + 1]

showTip ==
  \E tipId \in TipIds :
    /\ tipCall.n < MaxTipCalls
    /\ out' = _showTip(out, tipMap, tipId)
    /\ tipCall' = TipCallRecord("_showTip", customTipRegistry(tipId), tipId)
    /\ UNCHANGED <<tipMap, repoVars>>

showInfoTip ==
  \E tipId \in TipIds :
    /\ tipCall.n < MaxTipCalls
    /\ out' = _writeMessageWithPipes(out, tipMap, "Info", tipId)
    /\ tipCall' = TipCallRecord("_showInfoTip", "Info", tipId)
    /\ UNCHANGED <<tipMap, repoVars>>

showWarningTip ==
  \E tipId \in TipIds :
    /\ tipCall.n < MaxTipCalls
    /\ out' = _writeMessageWithPipes(out, tipMap, "Warning", tipId)
    /\ tipCall' = TipCallRecord("_showWarningTip", "Warning", tipId)
    /\ UNCHANGED <<tipMap, repoVars>>

showErrorTip ==
  \E tipId \in TipIds :
    /\ tipCall.n < MaxTipCalls
    /\ out' = _writeMessageWithPipes(out, tipMap, "Error", tipId)
    /\ tipCall' = TipCallRecord("_showErrorTip", "Error", tipId)
    /\ UNCHANGED <<tipMap, repoVars>>

TipNext == showTip \/ showInfoTip \/ showWarningTip \/ showErrorTip

TipSpec == TipInit /\ [][TipNext]_vars

TypeOK ==
  /\ disk.exists \in BOOLEAN
  /\ tracker.pnpmShrinkwrapHash \in OptStrings
  /\ tracker.preferredVersionsHash \in OptStrings
  /\ tracker.isValid \in BOOLEAN
  /\ tracker.modified \in BOOLEAN
  /\ pc \in {"start", "ready", "failed"}
  /\ call.op \in {"none", "load", "refresh"}
  /\ call.error \in {"none", "read", "schema", "write"}
  /\ call.writes \in Nat

----------------------------------------------------------------------------
(* Vocabulary of the properties *)

Returned == call.error = "none"
ConfigOn(c) == c.preventShrinkwrapChanges
Unparsable(text) == ParseString(text).kind = "error"

\* 0-based offsets at which a line of the text begins
LineStarts(text) == {0} \cup { i \in 1..Len(text) : text[i] = NL }

\* some line of the text begins with seven '<'
HasMarkerLine(text) ==
  \E s \in LineStarts(text) : Substr(text, s, MarkerLen) = Marker

\* the record a reader of the file at filePath finds: the members of the
\* JSON object it holds, none when there is no file or no JSON object in it
PersistedRecord(f) ==
  IF f.exists /\ ParseString(f.text).kind = "object" THEN ParseString(f.text)
  ELSE EmptyObject

\* the last call was loadFromFile and it read the content of the file
LoadedContent == call.op = "load" /\ call.error # "read" /\ disk.exists

\* the last call was loadFromFile, recovering from a merge conflict
ConflictLoad ==
  /\ call.op = "load" /\ Returned
  /\ ~tracker.isValid
  /\ tracker.pnpmShrinkwrapHash = Some(INVALID)
  /\ tracker.preferredVersionsHash = Some(INVALID)

\* the last call was refreshState on a tracker loaded from a merge conflict
RefreshAfterConflict ==
  /\ call.op = "refresh" /\ call.prev.op = "load"
  /\ ~call.pre.isValid
  /\ call.pre.pnpmShrinkwrapHash = Some(INVALID)
  /\ call.pre.preferredVersionsHash = Some(INVALID)

----------------------------------------------------------------------------
(* Properties *)

\* C1: loadFromFile throws on every file that exists, is not empty, fails
\* to parse and has no line beginning with seven '<'.
C1_UnknownCorruptionIsFatal ==
  (LoadedContent /\ disk.text # <<>> /\ Unparsable(disk.text)
     /\ ~HasMarkerLine(disk.text))
  => call.error # "none"

\* C2: on every unparsable file with a line beginning with seven '<', the
\* first line included, loadFromFile returns a tracker with isValid = false
\* and both hashes "INVALID".
C2_MergeConflictRecovery ==
  (LoadedContent /\ Unparsable(disk.text) /\ HasMarkerLine(disk.text))
  => ConflictLoad

\* C3 as stated: after refreshState returns, the persisted record holds
\* exactly the fields whose flags are enabled.
C3_FlagDrivenPresence ==
  (call.op = "refresh" /\ Returned)
  => /\ PersistedRecord(disk).pnpmShrinkwrapHash # None
          <=> call.config.preventShrinkwrapChanges
     /\ PersistedRecord(disk).preferredVersionsHash # None
          <=> call.config.useWorkspaces

\* C3 amended: after refreshState returns, the persisted record holds
\* exactly the fields whose flags are enabled, provided the committed
\* lockfile was found whenever lockfile tracking is enabled.
C3_FlagDrivenPresenceLockfileFound ==
  (call.op = "refresh" /\ Returned
     /\ (call.config.preventShrinkwrapChanges
           => call.config.shrinkwrapFileHash # None))
  => /\ PersistedRecord(disk).pnpmShrinkwrapHash # None
          <=> call.config.preventShrinkwrapChanges
     /\ PersistedRecord(disk).preferredVersionsHash # None
          <=> call.config.useWorkspaces

\* a refresh that removed a field whose flag had been disabled
C3_Witness ==
  /\ call.op = "refresh" /\ Returned
  /\ ~call.config.preventShrinkwrapChanges /\ call.config.useWorkspaces
  /\ call.pre.pnpmShrinkwrapHash # None
  /\ PersistedRecord(disk).pnpmShrinkwrapHash = None
  /\ PersistedRecord(disk).preferredVersionsHash # None

\* C4: a refreshState that follows a refreshState that returned, with the
\* same configuration, returns false and does not write the file.
C4_Idempotence ==
  (call.op = "refresh" /\ call.prev.op = "refresh"
     /\ call.prev.error = "none" /\ call.config = call.prev.config)
  => Returned /\ ~call.ret /\ call.writes = 0

\* the second of two equal refreshes, the first of which wrote the file
C4_Witness ==
  /\ call.op = "refresh" /\ call.prev.op = "refresh"
  /\ call.prev.error = "none" /\ call.config = call.prev.config
  /\ call.prev.ret
  /\ call.config.preventShrinkwrapChanges /\ call.config.useWorkspaces

\* C5: when lockfile tracking is enabled and the committed lockfile is not
\* found, refreshState clears a stored pnpmShrinkwrapHash and marks the
\* tracker dirty (so that it writes the file).
C5_MissingLockfileClears ==
  (call.op = "refresh" /\ call.config.preventShrinkwrapChanges
     /\ call.config.shrinkwrapFileHash = None
     /\ call.pre.pnpmShrinkwrapHash # None)
  => /\ tracker.pnpmShrinkwrapHash = None
     /\ call.writes = 1 \/ call.error = "write"

\* C6: after the refreshState that follows a merge-conflict load returns,
\* neither in-memory field nor any field of the file holds "INVALID".
C6_RefreshOverwritesSentinel ==
  (RefreshAfterConflict /\ Returned)
  => /\ tracker.pnpmShrinkwrapHash # Some(INVALID)
     /\ tracker.preferredVersionsHash # Some(INVALID)
     /\ PersistedRecord(disk).pnpmShrinkwrapHash # Some(INVALID)
     /\ PersistedRecord(disk).preferredVersionsHash # Some(INVALID)

\* C7: refreshState writes the file at most once, returns true exactly when
\* it wrote, and writes nothing when no field changed and no write was
\* pending.
C7_WritesAtMostOnce ==
  call.op = "refresh"
  => /\ call.writes <= 1
     /\ Returned => (call.ret <=> call.writes = 1)
     /\ (/\ tracker.pnpmShrinkwrapHash = call.pre.pnpmShrinkwrapHash
         /\ tracker.preferredVersionsHash = call.pre.preferredVersionsHash
         /\ ~call.pre.modified)
        => call.writes = 0 /\ Returned /\ ~call.ret

\* a refresh that changed a field and wrote the file
C7_Witness ==
  /\ call.op = "refresh" /\ Returned /\ call.ret /\ call.writes = 1
  /\ tracker.pnpmShrinkwrapHash # call.pre.pnpmShrinkwrapHash

\* C8: loadFromFile on the file a refreshState has just written returns a
\* tracker with the fields, and the values, of the tracker that wrote it.
C8_RoundTrip ==
  (call.op = "load" /\ Returned
     /\ call.prev.op = "refresh" /\ call.prev.error = "none" /\ call.prev.ret)
  => /\ tracker.pnpmShrinkwrapHash = call.pre.pnpmShrinkwrapHash
     /\ tracker.preferredVersionsHash = call.pre.preferredVersionsHash

\* C9: after every refreshState that returns, isValid is true.
C9_RefreshSetsValid ==
  (call.op = "refresh" /\ Returned) => tracker.isValid

\* a refresh of a tracker that was not valid, which wrote nothing new to
\* the lockfile field
C9_Witness ==
  /\ call.op = "refresh" /\ Returned
  /\ ~call.pre.isValid /\ tracker.isValid
  /\ tracker.pnpmShrinkwrapHash = call.pre.pnpmShrinkwrapHash

\* C10: when no file exists at the path, loadFromFile returns a tracker
\* with both hashes absent and isValid = true.
C10_AbsentFileLoadsEmpty ==
  (call.op = "load" /\ ~disk.exists)
  => /\ Returned /\ pc = "ready"
     /\ tracker.pnpmShrinkwrapHash = None
     /\ tracker.preferredVersionsHash = None
     /\ tracker.isValid

\* a load with no file at the path
C10_Witness ==
  call.op = "load" /\ ~disk.exists /\ pc = "ready"

\* C11 : the tracker loadFromFile returns has isValid = false exactly when
\* the file existed, failed to parse and has a line beginning with seven
\* '<'.
C11_InvalidIffMarkerLine ==
  (call.op = "load" /\ Returned)
  => (~tracker.isValid
        <=> (disk.exists /\ Unparsable(disk.text)
               /\ HasMarkerLine(disk.text)))

\* a write was attempted by the last call
WriteAttempted == call.writes = 1 \/ call.error = "write"

\* C12: with its feature enabled and its hash h available, a field equals
\* h after refreshState, and it makes the tracker dirty (so that the file
\* is written) exactly when h differs from the value stored before, absent
\* and "INVALID" included.
C12_EnabledFieldTakesHash ==
  call.op = "refresh"
  => /\ (call.config.preventShrinkwrapChanges
           /\ call.config.shrinkwrapFileHash # None)
        => /\ tracker.pnpmShrinkwrapHash = call.config.shrinkwrapFileHash
           /\ call.pre.pnpmShrinkwrapHash # call.config.shrinkwrapFileHash
                => WriteAttempted
           /\ RefreshShrinkwrapHash(call.pre, call.config).modified
                <=> (call.pre.modified
                       \/ call.pre.pnpmShrinkwrapHash
                            # call.config.shrinkwrapFileHash)
     /\ call.config.useWorkspaces
        => /\ tracker.preferredVersionsHash
                = call.config.preferredVersionsHash
           /\ call.pre.preferredVersionsHash
                # call.config.preferredVersionsHash
                => WriteAttempted
           /\ RefreshPreferredVersionsHash(call.pre, call.config).modified
                <=> (call.pre.modified
                       \/ call.pre.preferredVersionsHash
                            # call.config.preferredVersionsHash)
     /\ (/\ call.config.preventShrinkwrapChanges
         /\ call.config.useWorkspaces
         /\ call.pre.pnpmShrinkwrapHash = call.config.shrinkwrapFileHash
         /\ call.pre.preferredVersionsHash
              = call.config.preferredVersionsHash
         /\ ~call.pre.modified)
        => ~WriteAttempted

\* a refresh that replaced the "INVALID" sentinel by the lockfile hash and
\* an absent value by the preferred versions hash, and wrote the file
C12_Witness ==
  /\ call.op = "refresh" /\ Returned /\ call.ret
  /\ call.pre.pnpmShrinkwrapHash = Some(INVALID)
  /\ call.config.shrinkwrapFileHash = Some("abc")
  /\ tracker.pnpmShrinkwrapHash = Some("abc")
  /\ call.config.useWorkspaces

\* the scenario of C13: lockfile tracking on, stored and computed lockfile
\* hash "abc", workspace tracking off, a preferred versions hash stored
C13_Scenario ==
  /\ call.op = "refresh" /\ Returned
  /\ call.config.preventShrinkwrapChanges
  /\ call.config.shrinkwrapFileHash = Some("abc")
  /\ call.pre.pnpmShrinkwrapHash = Some("abc")
  /\ ~call.config.useWorkspaces
  /\ call.pre.preferredVersionsHash # None

\* C13: in that scenario refreshState returns true and the written file
\* has pnpmShrinkwrapHash "abc" and no preferredVersionsHash.
C13_DisabledWorkspaceFieldRemoved ==
  C13_Scenario
  => /\ call.ret /\ call.writes = 1
     /\ ParseString(disk.text).kind = "object"
     /\ PersistedRecord(disk).pnpmShrinkwrapHash = Some("abc")
     /\ PersistedRecord(disk).preferredVersionsHash = None

\* the scenario, with the preferred versions hash "def" stored
C13_Witness ==
  C13_Scenario /\ call.pre.preferredVersionsHash = Some("def")

BothFlagsOff(c) == ~c.preventShrinkwrapChanges /\ ~c.useWorkspaces

\* C14: with no file at the path, after a loadFromFile and any number of
\* refreshState calls with both flags disabled, one more such refreshState
\* returns false, writes nothing, creates no file and leaves both fields
\* absent.
C14_NoFileFlagsOffNoWrite ==
  [][ (/\ ~disk.exists
       /\ Returned
       /\ call.op = "load"
            \/ (call.op = "refresh" /\ BothFlagsOff(call.config))
       /\ call'.op = "refresh" /\ BothFlagsOff(call'.config))
      => /\ ~disk'.exists
         /\ call'.error = "none" /\ ~call'.ret /\ call'.writes = 0
         /\ tracker'.pnpmShrinkwrapHash = None
         /\ tracker'.preferredVersionsHash = None ]_vars

\* the second refresh with both flags disabled after a load of no file
C14_Witness ==
  /\ ~disk.exists
  /\ call.op = "refresh" /\ Returned /\ BothFlagsOff(call.config)
  /\ call.prev.op = "refresh" /\ BothFlagsOff(call.prev.config)
  /\ call.prev.error = "none"

\* C15: when the write fails, refreshState throws and the dirty flag stays
\* set; the next refreshState with the same configuration attempts the
\* write again and returns true when it succeeds.
C15_FailedWriteIsRetried ==
  /\ (call.op = "refresh" /\ call.error = "write") => tracker.modified
  /\ (/\ call.op = "refresh" /\ call.prev.op = "refresh"
      /\ call.prev.error = "write" /\ call.config = call.prev.config)
     => /\ WriteAttempted
        /\ Returned => (call.ret /\ call.writes = 1 /\ ~tracker.modified)

\* a refresh that wrote the file the refresh before it had failed to write
C15_Witness ==
  /\ call.op = "refresh" /\ call.prev.op = "refresh"
  /\ call.prev.error = "write" /\ call.config = call.prev.config
  /\ Returned /\ call.ret
  /\ call.pre.modified

\* C16 as stated: after a loadFromFile or a refreshState that returned, the
\* fields of the file are exactly the in-memory fields, with their values.
C16_FieldsMirrorFile ==
  (call.op \in {"load", "refresh"} /\ Returned)
  => /\ PersistedRecord(disk).pnpmShrinkwrapHash = tracker.pnpmShrinkwrapHash
     /\ PersistedRecord(disk).preferredVersionsHash
          = tracker.preferredVersionsHash

\* the field of the file is the in-memory field m, an empty string in
\* memory being allowed to be absent from the file
MirrorsButEmpty(m, f) == f = m \/ (m = Some("") /\ f = None)

\* C16 amended: after a loadFromFile or a refreshState that returned with
\* isValid = true, the fields of the file are exactly the in-memory fields,
\* with their values, except that an in-memory empty string may be absent
\* from the file.
C16_FieldsMirrorFileWhenValid ==
  (call.op \in {"load", "refresh"} /\ Returned /\ tracker.isValid)
  => /\ MirrorsButEmpty(tracker.pnpmShrinkwrapHash,
                        PersistedRecord(disk).pnpmShrinkwrapHash)
     /\ MirrorsButEmpty(tracker.preferredVersionsHash,
                        PersistedRecord(disk).preferredVersionsHash)

\* a refresh that wrote both hashes to the file
C16_Witness ==
  /\ call.op = "refresh" /\ Returned /\ call.ret
  /\ tracker.pnpmShrinkwrapHash = Some("abc")
  /\ tracker.preferredVersionsHash = Some("def")
  /\ PersistedRecord(disk).pnpmShrinkwrapHash = Some("abc")
  /\ PersistedRecord(disk).preferredVersionsHash = Some("def")

\* the in-memory fields of t are the fields of the record r
SameFields(t, r) ==
  /\ t.pnpmShrinkwrapHash = r.pnpmShrinkwrapHash
  /\ t.preferredVersionsHash = r.preferredVersionsHash

\* the in-memory fields of t are not what the file f holds; a text that is
\* not JSON holds no record and differs from every tracker
DiffersFromFile(t, f) ==
  IF f.exists /\ f.text # <<>> /\ Unparsable(f.text) THEN TRUE
  ELSE ~SameFields(t, PersistedRecord(f))

\* C17 as stated: the dirty flag is false after loadFromFile and after a
\* refreshState that returned; at the save inside refreshState it is true
\* exactly when the in-memory fields differ from the persisted ones; it is
\* reset only by a successful write.
C17_DirtyIffDiffersFromFile ==
  [][ /\ (call'.op \in {"load", "refresh"} /\ call'.error = "none")
           => ~tracker'.modified
      /\ call'.op = "refresh"
           => /\ WriteAttempted' <=> DiffersFromFile(tracker', disk)
              /\ (tracker.modified /\ ~tracker'.modified)
                   => call'.writes = 1 ]_vars

\* C17 amended: the dirty flag is false after loadFromFile and after a
\* refreshState that returned; at the save inside refreshState it is true
\* exactly when that call changed an in-memory field or an earlier failed
\* write left it set; it is reset only by a successful write.
C17_DirtyIffChangedOrPending ==
  [][ /\ (call'.op \in {"load", "refresh"} /\ call'.error = "none")
           => ~tracker'.modified
      /\ call'.op = "refresh"
           => /\ WriteAttempted'
                   <=> (tracker.modified \/ ~SameFields(tracker', tracker))
              /\ (tracker.modified /\ ~tracker'.modified)
                   => call'.writes = 1 ]_vars

\* a refresh that changed no field and wrote the file because the write of
\* the refresh before it had failed
C17_Witness ==
  /\ call.op = "refresh" /\ Returned /\ call.ret
  /\ call.prev.op = "refresh" /\ call.prev.error = "write"
  /\ call.pre.modified /\ ~tracker.modified
  /\ SameFields(tracker, call.pre)

\* the tracker refreshState leaves when called on t with the configuration c
Refreshed(t, c) == RefreshResult(t, NoFile, c, FALSE).tracker

\* C18: the lockfile hash refreshState leaves is the one it would leave
\* under any configuration with the same lockfile flag, availability and
\* hash; the preferred versions hash is the one it would leave under any
\* configuration with the same workspace flag and preferred versions hash.
C18_FieldsIndependent ==
  call.op = "refresh"
  => \A c \in Configurations :
       /\ (/\ c.preventShrinkwrapChanges
                = call.config.preventShrinkwrapChanges
           /\ c.shrinkwrapFileHash = call.config.shrinkwrapFileHash)
          => Refreshed(call.pre, c).pnpmShrinkwrapHash
               = tracker.pnpmShrinkwrapHash
       /\ (/\ c.useWorkspaces = call.config.useWorkspaces
           /\ c.preferredVersionsHash = call.config.preferredVersionsHash)
          => Refreshed(call.pre, c).preferredVersionsHash
               = tracker.preferredVersionsHash

\* a refresh that set the lockfile hash and removed the preferred versions
\* hash in one call
C18_Witness ==
  /\ call.op = "refresh" /\ Returned
  /\ call.config.preventShrinkwrapChanges /\ ~call.config.useWorkspaces
  /\ call.pre.pnpmShrinkwrapHash # tracker.pnpmShrinkwrapHash
  /\ call.pre.preferredVersionsHash # None
  /\ tracker.preferredVersionsHash = None

\* C19: the first refreshState after a load that recovered from a merge
\* conflict, when it returns, has written the file and returns true; the
\* file no longer is the conflicted one.
C19_RefreshAfterConflictWrites ==
  (call.op = "refresh" /\ call.prev.op = "load" /\ ~call.pre.isValid
     /\ Returned)
  => /\ call.ret /\ call.writes = 1
     /\ ~Unparsable(disk.text)

\* such a refresh with lockfile tracking on, no lockfile, no workspaces
C19_Witness ==
  /\ RefreshAfterConflict /\ Returned
  /\ call.config.preventShrinkwrapChanges
  /\ call.config.shrinkwrapFileHash = None
  /\ ~call.config.useWorkspaces

\* the text the last call of the formatter sent to the terminal, and its
\* lines
Written ==
  [i \in 1..(Len(out) - tipCall.mark) |-> out[tipCall.mark + i].text]
WrittenLines == Split(Written)

\* the lines of the configured message, wrapped, without their indent
MessageLines(tipId) ==
  LET ls == Split(wrapWords(tipMap[tipId].message, IndentToBeRemoved))
  IN [i \in 1..Len(ls) |-> RemoveIndent(ls[i])]

\* C20: at every severity, a call for a configured tip writes the line
\* "| Custom Tip (<id>)" first and then every line of the wrapped message
\* on one terminal line with its "| " prefix; a call for a tip that is not
\* configured writes nothing.
C20_TipFramedByPipes ==
  tipCall.op # "none"
  => IF ~tipMap[tipCall.tipId].configured THEN Len(out) = tipCall.mark
     ELSE /\ WrittenLines[1] = <<"| Custom Tip (", tipCall.tipId, ")">>
          /\ \E k \in 1..Len(WrittenLines) :
               \A i \in 1..Len(MessageLines(tipCall.tipId)) :
                 /\ k + i <= Len(WrittenLines)
                 /\ WrittenLines[k + i]
                      = <<Pipe>> \o MessageLines(tipCall.tipId)[i]

====
